---- MODULE Spec2Model ----
(***************************************************************************)
(* Model of the three transcription command-line scripts                   *)
(*   scripts/whisperx_service.py    (WhisperXTranscriber, main)            *)
(*   scripts/whisperx_processor.py  (transcribe_audio, main)               *)
(*   scripts/whisper_simple.py      (SimpleWhisperTranscriber, main)       *)
(* One behaviour is one process invocation, from the parsed command line   *)
(* to the exit code.  The external speech libraries are nondeterministic:  *)
(* every call either raises or returns a value of its documented shape.    *)
(*                                                                         *)
(* Numbers: times are integers (seconds); confidences are fixed point with *)
(* One = 1.0, and "/" is the fixed-point quotient (\div).                  *)
(* Python dicts are functions over their keys: "k in d" is k \in DOMAIN d. *)
(***************************************************************************)
EXTENDS Integers, Sequences, FiniteSets, TLC

VARIABLES
    script,          \* which script runs
    no_diarization,  \* args.no_diarization                   (service)
    hf_token,        \* args.hf_token is a non-empty string   (service)
    env_token,       \* os.getenv("HF_TOKEN") is non-empty    (service)
    output_dir,      \* args.output_dir is given              (processor)
    json_flag,       \* args.json                             (processor)
    pc,              \* position in the script
    calls,           \* number of attempts of each external call
    exception,       \* what raised the exception that ended the run, or NoException
    diarize_model,   \* self.diarize_model is loaded (not None)
    language,        \* result["language"] of transcribe, or Missing
    result,          \* result["segments"]: the raw segments being assembled
    output,          \* the assembled document, NoDoc before assembly
    file,            \* the output file
    stdout,          \* what was printed on stdout, in order
    stderr,          \* messages on stderr the model tracks, in order
    success,         \* return value of process_file
    exitCode         \* process exit code, -1 while running

vars == <<script, no_diarization, hf_token, env_token, output_dir, json_flag,
          pc, calls, exception, diarize_model, language, result, output, file,
          stdout, stderr, success, exitCode>>

(***************************************************************************)
(* Bounds and input universes                                              *)
(***************************************************************************)
MaxSegs == 2

One == 1000

Scripts == {"service", "processor", "simple"}

Calls == {"load_model", "load_audio", "transcribe", "load_align_model",
          "align", "diarize", "assign_word_speakers", "DiarizationPipeline"}

Missing == "<missing>"
Languages == {"en", Missing}

SpeakerIds == {"SPEAKER_00", "SPEAKER_01"}

\* a character outside ASCII (e acute), as one character of a text
NonAscii == "U+00E9"

\* the sample segments: duration, text, and whether word-level data comes
\* with the segment
Shapes == {[dur |-> 1, text |-> <<" ", "h", "i", " ">>, words |-> TRUE],
           [dur |-> 2, text |-> <<"h", NonAscii>>, words |-> FALSE]}

\* optional confidence-like keys a raw segment may carry
ScoreKeys == {<<>>, [score |-> 700], [confidence |-> 800]}

\* the word-level data of a segment: one word without any confidence key,
\* one with the alignment "score" of WhisperX, one with the "probability"
\* of Whisper
WordKeys(sh, t) ==
    IF sh.words
    THEN [words |-> <<[word |-> "h", start |-> t, end |-> t + sh.dur],
                      [word |-> "i", start |-> t, end |-> t + sh.dur, score |-> 900],
                      [word |-> "!", start |-> t, end |-> t + sh.dur,
                       probability |-> 600]>>]
    ELSE <<>>

\* raw segments starting at time t, as the external libraries return them
SegsAt(t) ==
    {[start |-> t, end |-> t + sh.dur, text |-> sh.text] @@ sc @@ WordKeys(sh, t) :
        sh \in Shapes, sc \in ScoreKeys}

RECURSIVE SegSeqsFrom(_, _)
SegSeqsFrom(t, n) ==
    IF n = 0 THEN {<<>>}
    ELSE UNION {{<<s>> \o rest : rest \in SegSeqsFrom(s.end, n - 1)} : s \in SegsAt(t)}

\* every raw segment list of at most MaxSegs contiguous segments
RawResults == UNION {SegSeqsFrom(0, n) : n \in 0..MaxSegs}

NoException == "None"
NoDoc == [unset |-> TRUE]
NoFile == [state |-> "untouched"]

(***************************************************************************)
(* Pure helpers                                                            *)
(***************************************************************************)
\* dict.get(key, default)
Get(d, key, default) == IF key \in DOMAIN d THEN d[key] ELSE default

RECURSIVE LStrip(_)
LStrip(s) == IF s # <<>> /\ Head(s) = " " THEN LStrip(Tail(s)) ELSE s

RECURSIVE RStrip(_)
RStrip(s) ==
    IF s # <<>> /\ s[Len(s)] = " " THEN RStrip(SubSeq(s, 1, Len(s) - 1)) ELSE s

\* str.strip()
Strip(s) == RStrip(LStrip(s))

RECURSIVE Sum(_)
Sum(s) == IF s = <<>> THEN 0 ELSE Head(s) + Sum(Tail(s))

ErrorDoc(msg) == [error |-> msg, success |-> FALSE]

\* how json writes one character of a string: with ensure_ascii a character
\* outside ASCII becomes its \uXXXX escape
EscapeChar(c, ensure_ascii) ==
    IF ensure_ascii /\ c = NonAscii THEN "\\u00e9" ELSE c

EncodeText(s, ensure_ascii) == [k \in DOMAIN s |-> EscapeChar(s[k], ensure_ascii)]

\* the document with its segment texts as json writes them (every other
\* string of the model is ASCII and is written as it is)
EncodeDoc(doc, ensure_ascii) ==
    IF "segments" \in DOMAIN doc
    THEN [doc EXCEPT !.segments =
            [i \in DOMAIN doc.segments |->
                [doc.segments[i] EXCEPT
                    !.text = EncodeText(doc.segments[i].text, ensure_ascii)]]]
    ELSE doc

\* json.dumps(doc, indent=..., ensure_ascii=...): the JSON text, pretty
\* when an indent is given and one compact line otherwise
Dumps(doc, pretty, ensure_ascii) ==
    [pretty |-> pretty, value |-> EncodeDoc(doc, ensure_ascii)]

\* print(json.dumps(doc, ...)) : one JSON object on stdout
JsonLine(doc, pretty, ensure_ascii) ==
    [kind |-> "json", json |-> Dumps(doc, pretty, ensure_ascii)]
\* print(f"...") : a line that is not JSON
TextLine(t) == [kind |-> "text", text |-> t]

Init ==
    /\ script \in Scripts
    /\ no_diarization \in (IF script = "service" THEN BOOLEAN ELSE {FALSE})
    /\ hf_token \in (IF script = "service" THEN BOOLEAN ELSE {FALSE})
    /\ env_token \in (IF script = "service" THEN BOOLEAN ELSE {FALSE})
    /\ output_dir \in (IF script = "processor" THEN BOOLEAN ELSE {FALSE})
    /\ json_flag \in (IF script = "processor" THEN BOOLEAN ELSE {FALSE})
    /\ pc = "main"
    /\ calls = [c \in Calls |-> 0]
    /\ exception = NoException
    /\ diarize_model = FALSE
    /\ language = Missing
    /\ result = <<>>
    /\ output = NoDoc
    /\ file = NoFile
    /\ stdout = <<>>
    /\ stderr = <<>>
    /\ success = FALSE
    /\ exitCode = -1


(***************************************************************************)
(* Result assembly: whisperx_service.py, WhisperXTranscriber.transcribe    *)
(***************************************************************************)
\* one entry of seg_data["words"]
Service_word(word) ==
    [word |-> word.word, start |-> word.start, end |-> word.end,
     confidence |-> Get(word, "confidence", One)]

\* seg_data for one raw segment
Service_seg_data(segment) ==
    [start |-> segment.start, end |-> segment.end,
     text |-> Strip(segment.text),
     confidence |-> Get(segment, "confidence", One)]
    @@ (IF "speaker" \in DOMAIN segment
        THEN [speaker |-> segment.speaker] ELSE <<>>)
    @@ (IF "words" \in DOMAIN segment
        THEN [words |-> [i \in DOMAIN segment.words |-> Service_word(segment.words[i])]]
        ELSE <<>>)

\* Service_track with the duration taken as the end time alone
Service_track_end_only(speaker_stats, segment) ==
    IF "speaker" \notin DOMAIN segment THEN speaker_stats
    ELSE LET speaker_id == segment.speaker
             known == \E i \in DOMAIN speaker_stats : speaker_stats[i].id = speaker_id
             stats == IF known THEN speaker_stats
                      ELSE Append(speaker_stats,
                                  [id |-> speaker_id, segments |-> 0, total_duration |-> 0])
         IN [i \in DOMAIN stats |->
                IF stats[i].id = speaker_id
                THEN [stats[i] EXCEPT !.segments = @ + 1,
                                      !.total_duration = @ + segment.end]
                ELSE stats[i]]

\* Service_track with a new speaker put in front of the known ones
Service_track_prepend(speaker_stats, segment) ==
    IF "speaker" \notin DOMAIN segment THEN speaker_stats
    ELSE LET speaker_id == segment.speaker
             known == \E i \in DOMAIN speaker_stats : speaker_stats[i].id = speaker_id
             stats == IF known THEN speaker_stats
                      ELSE <<[id |-> speaker_id, segments |-> 0, total_duration |-> 0]>>
                           \o speaker_stats
         IN [i \in DOMAIN stats |->
                IF stats[i].id = speaker_id
                THEN [stats[i] EXCEPT !.segments = @ + 1,
                                      !.total_duration = @ + (segment.end - segment.start)]
                ELSE stats[i]]

\* speaker_stats after one segment; the dict is kept as the sequence of its
\* values in insertion order
Service_track(speaker_stats, segment) ==
    IF "speaker" \notin DOMAIN segment THEN speaker_stats
    ELSE LET speaker_id == segment.speaker
             known == \E i \in DOMAIN speaker_stats : speaker_stats[i].id = speaker_id
             stats == IF known THEN speaker_stats
                      ELSE Append(speaker_stats,
                                  [id |-> speaker_id, segments |-> 0, total_duration |-> 0])
         IN [i \in DOMAIN stats |->
                IF stats[i].id = speaker_id
                THEN [stats[i] EXCEPT !.segments = @ + 1,
                                      !.total_duration = @ + (segment.end - segment.start)]
                ELSE stats[i]]

RECURSIVE Service_speaker_stats(_)
Service_speaker_stats(segments) ==
    IF segments = <<>> THEN <<>>
    ELSE Service_track(Service_speaker_stats(SubSeq(segments, 1, Len(segments) - 1)),
                       segments[Len(segments)])

\* the document returned by transcribe
Service_output(detected_language, segments) ==
    [language |-> detected_language,
     segments |-> [i \in DOMAIN segments |-> Service_seg_data(segments[i])],
     speakers |-> Service_speaker_stats(segments)]

(***************************************************************************)
(* Result assembly: whisperx_processor.py, transcribe_audio                *)
(***************************************************************************)
Processor_segment(segment, id) ==
    [id |-> id, start |-> segment.start, end |-> segment.end,
     text |-> Strip(segment.text),
     confidence |-> Get(segment, "score", 0),
     words |-> Get(segment, "words", <<>>)]

Processor_confidence(segments) ==
    IF segments # <<>>
    THEN Sum([i \in DOMAIN segments |-> segments[i].confidence]) \div Len(segments)
    ELSE 0

\* the align result carries no "language" key, so the document says "unknown"
Processor_transcription(segments) ==
    LET out == [i \in DOMAIN segments |-> Processor_segment(segments[i], i - 1)]
    IN [language |-> "unknown", segments |-> out,
        confidence |-> Processor_confidence(out)]

(***************************************************************************)
(* Result assembly: whisper_simple.py, SimpleWhisperTranscriber.transcribe *)
(***************************************************************************)
Simple_word(word) ==
    [word |-> Get(word, "word", ""), start |-> Get(word, "start", 0),
     end |-> Get(word, "end", 0), confidence |-> Get(word, "probability", One)]

Simple_seg_data(segment) ==
    [start |-> segment.start, end |-> segment.end,
     text |-> Strip(segment.text), confidence |-> One]
    @@ (IF "words" \in DOMAIN segment
        THEN [words |-> [i \in DOMAIN segment.words |-> Simple_word(segment.words[i])]]
        ELSE <<>>)

Simple_output(detected_language, segments) ==
    [language |-> detected_language,
     segments |-> [i \in DOMAIN segments |-> Simple_seg_data(segments[i])],
     speakers |-> <<>>]

\* result.get("language", "unknown")
Detected(lang) == IF lang = Missing THEN "unknown" ELSE lang


(***************************************************************************)
(* Control flow helpers                                                    *)
(***************************************************************************)
Attempt(c) == calls' = [calls EXCEPT ![c] = @ + 1]

\* an exception nothing catches: the interpreter prints a traceback and
\* exits with code 1
Uncaught(e) ==
    /\ exception' = e
    /\ stderr' = Append(stderr, "Traceback")
    /\ exitCode' = 1
    /\ pc' = "done"

\* "except Exception as e" of process_file: the error document goes to
\* stdout and process_file returns False
ProcessFileExcept(msg) ==
    /\ exception' = msg
    /\ stdout' = Append(stdout, JsonLine(ErrorDoc(msg), FALSE, TRUE))
    /\ success' = FALSE
    /\ pc' = "exit"

\* the three outcomes of open(output_path, 'w') followed by json.dump
SaveOutcomes == {"open_failed", "dump_failed", "saved"}

FileAfter(outcome, doc) ==
    CASE outcome = "open_failed" -> file
      [] outcome = "dump_failed" -> [state |-> "partial"]
      [] outcome = "saved" -> [state |-> "written", json |-> Dumps(doc, TRUE, FALSE)]

\* every way assign_word_speakers can label the segments
Assigned(segments) ==
    {[i \in DOMAIN segments |->
        IF lab[i] = Missing THEN segments[i]
        ELSE segments[i] @@ [speaker |-> lab[i]]] :
     lab \in [DOMAIN segments -> SpeakerIds \cup {Missing}]}

(***************************************************************************)
(* whisperx_service.py                                                     *)
(***************************************************************************)
args == <<script, no_diarization, hf_token, env_token, output_dir, json_flag>>

\* WhisperXTranscriber.__init__, called from main outside any try
Service_init ==
    /\ script = "service" /\ pc = "main"
    /\ Attempt("load_model")
    /\ \/ /\ pc' = "load_diarization"
          /\ UNCHANGED <<exception, stderr, exitCode>>
       \/ Uncaught("load_model")
    /\ UNCHANGED <<args, diarize_model, language, result, output, file,
                   stdout, success>>

\* main: "if not args.no_diarization: load_diarization_model(args.hf_token)"
Service_load_diarization_model ==
    /\ script = "service" /\ pc = "load_diarization"
    /\ pc' = "load_audio"
    /\ IF no_diarization
       THEN UNCHANGED <<calls, diarize_model, stderr>>
       ELSE IF ~(hf_token \/ env_token)
       THEN /\ stderr' = Append(stderr, "Warning: No Hugging Face token provided")
            /\ UNCHANGED <<calls, diarize_model>>
       ELSE /\ Attempt("DiarizationPipeline")
            /\ \/ /\ diarize_model' = TRUE
                  /\ UNCHANGED stderr
               \/ /\ stderr' = Append(stderr, "Failed to load diarization model")
                  /\ UNCHANGED diarize_model
    /\ UNCHANGED <<args, exception, language, result, output, file, stdout,
                   success, exitCode>>

\* Service_load_audio that tries again when the load raises
Service_load_audio_retry ==
    /\ script = "service" /\ pc = "load_audio"
    /\ Attempt("load_audio")
    /\ \/ /\ pc' = "transcribe"
          /\ UNCHANGED <<exception, stdout, success>>
       \/ /\ pc' = "load_audio"
          /\ UNCHANGED <<exception, stdout, success>>
    /\ UNCHANGED <<args, diarize_model, language, result, output, file,
                   stderr, exitCode>>

Service_load_audio ==
    /\ script = "service" /\ pc = "load_audio"
    /\ Attempt("load_audio")
    /\ \/ /\ pc' = "transcribe"
          /\ UNCHANGED <<exception, stdout, success>>
       \/ ProcessFileExcept("load_audio")
    /\ UNCHANGED <<args, diarize_model, language, result, output, file,
                   stderr, exitCode>>

\* self.model.transcribe; its segments are only handed on to align
Service_transcribe ==
    /\ script = "service" /\ pc = "transcribe"
    /\ Attempt("transcribe")
    /\ \/ /\ \E l \in Languages : language' = l
          /\ pc' = "load_align_model"
          /\ UNCHANGED <<exception, stdout, success>>
       \/ /\ ProcessFileExcept("transcribe")
          /\ UNCHANGED language
    /\ UNCHANGED <<args, diarize_model, result, output, file, stderr, exitCode>>

Service_load_align_model ==
    /\ script = "service" /\ pc = "load_align_model"
    /\ Attempt("load_align_model")
    /\ \/ /\ pc' = "align"
          /\ UNCHANGED <<exception, stdout, success>>
       \/ ProcessFileExcept("load_align_model")
    /\ UNCHANGED <<args, diarize_model, language, result, output, file,
                   stderr, exitCode>>

\* Service_align that tests enable_diarization alone
Service_align_enable_only ==
    /\ script = "service" /\ pc = "align"
    /\ Attempt("align")
    /\ \/ /\ \E r \in RawResults : result' = r
          /\ pc' = IF ~no_diarization THEN "diarize" ELSE "format"
          /\ UNCHANGED <<exception, stdout, success>>
       \/ /\ ProcessFileExcept("align")
          /\ UNCHANGED result
    /\ UNCHANGED <<args, diarize_model, language, output, file, stderr, exitCode>>

\* whisperx.align, then "if enable_diarization and self.diarize_model"
Service_align ==
    /\ script = "service" /\ pc = "align"
    /\ Attempt("align")
    /\ \/ /\ \E r \in RawResults : result' = r
          /\ pc' = IF ~no_diarization /\ diarize_model THEN "diarize" ELSE "format"
          /\ UNCHANGED <<exception, stdout, success>>
       \/ /\ ProcessFileExcept("align")
          /\ UNCHANGED result
    /\ UNCHANGED <<args, diarize_model, language, output, file, stderr, exitCode>>

\* self.diarize_model(audio, ...)
Service_diarize ==
    /\ script = "service" /\ pc = "diarize"
    /\ Attempt("diarize")
    /\ \/ /\ pc' = "assign_word_speakers"
          /\ UNCHANGED <<exception, stdout, success>>
       \/ ProcessFileExcept("diarize")
    /\ UNCHANGED <<args, diarize_model, language, result, output, file,
                   stderr, exitCode>>

Service_assign_word_speakers ==
    /\ script = "service" /\ pc = "assign_word_speakers"
    /\ Attempt("assign_word_speakers")
    /\ \/ /\ \E r \in Assigned(result) : result' = r
          /\ pc' = "format"
          /\ UNCHANGED <<exception, stdout, success>>
       \/ /\ ProcessFileExcept("assign_word_speakers")
          /\ UNCHANGED result
    /\ UNCHANGED <<args, diarize_model, language, output, file, stderr, exitCode>>

\* "Format output" to "return output"
Service_format ==
    /\ script = "service" /\ pc = "format"
    /\ output' = Service_output(Detected(language), result)
    /\ pc' = "save"
    /\ UNCHANGED <<args, calls, exception, diarize_model, language, result, file,
                   stdout, stderr, success, exitCode>>

\* Service_save that goes on to print whatever became of the file
Service_save_unchecked ==
    /\ script = "service" /\ pc = "save"
    /\ \E o \in SaveOutcomes : file' = FileAfter(o, output)
    /\ pc' = "print"
    /\ UNCHANGED <<exception, stdout, success>>
    /\ UNCHANGED <<args, calls, diarize_model, language, result, output,
                   stderr, exitCode>>

\* process_file: "with open(output_path, 'w') ...: json.dump(result, f, ...)"
Service_save ==
    /\ script = "service" /\ pc = "save"
    /\ \E o \in SaveOutcomes :
         /\ file' = FileAfter(o, output)
         /\ IF o = "saved"
            THEN /\ pc' = "print"
                 /\ UNCHANGED <<exception, stdout, success>>
            ELSE ProcessFileExcept(o)
    /\ UNCHANGED <<args, calls, diarize_model, language, result, output,
                   stderr, exitCode>>

\* process_file: "print(json.dumps(result))" and "return True"
Service_print ==
    /\ script = "service" /\ pc = "print"
    /\ stdout' = Append(stdout, JsonLine(output, FALSE, TRUE))
    /\ success' = TRUE
    /\ pc' = "exit"
    /\ UNCHANGED <<args, calls, exception, diarize_model, language, result,
                   output, file, stderr, exitCode>>

\* Service_exit that ignores the result of process_file
Service_exit_zero ==
    /\ script = "service" /\ pc = "exit"
    /\ exitCode' = 0
    /\ pc' = "done"
    /\ UNCHANGED <<args, calls, exception, diarize_model, language, result,
                   output, file, stdout, stderr, success>>

\* main: "sys.exit(0 if success else 1)"
Service_exit ==
    /\ script = "service" /\ pc = "exit"
    /\ exitCode' = IF success THEN 0 ELSE 1
    /\ pc' = "done"
    /\ UNCHANGED <<args, calls, exception, diarize_model, language, result,
                   output, file, stdout, stderr, success>>


(***************************************************************************)
(* whisper_simple.py                                                       *)
(***************************************************************************)
\* SimpleWhisperTranscriber.__init__, called from main outside any try
Simple_init ==
    /\ script = "simple" /\ pc = "main"
    /\ Attempt("load_model")
    /\ \/ /\ pc' = "transcribe"
          /\ UNCHANGED <<exception, stderr, exitCode>>
       \/ Uncaught("load_model")
    /\ UNCHANGED <<args, diarize_model, language, result, output, file,
                   stdout, success>>

\* self.model.transcribe(audio_path, ...), which also reads the audio file
Simple_transcribe ==
    /\ script = "simple" /\ pc = "transcribe"
    /\ Attempt("transcribe")
    /\ \/ /\ \E l \in Languages : language' = l
          /\ \E r \in RawResults : result' = r
          /\ pc' = "format"
          /\ UNCHANGED <<exception, stdout, success>>
       \/ /\ ProcessFileExcept("transcribe")
          /\ UNCHANGED <<language, result>>
    /\ UNCHANGED <<args, diarize_model, output, file, stderr, exitCode>>

Simple_format ==
    /\ script = "simple" /\ pc = "format"
    /\ output' = Simple_output(Detected(language), result)
    /\ pc' = "save"
    /\ UNCHANGED <<args, calls, exception, diarize_model, language, result, file,
                   stdout, stderr, success, exitCode>>

Simple_save ==
    /\ script = "simple" /\ pc = "save"
    /\ \E o \in SaveOutcomes :
         /\ file' = FileAfter(o, output)
         /\ IF o = "saved"
            THEN /\ pc' = "print"
                 /\ UNCHANGED <<exception, stdout, success>>
            ELSE ProcessFileExcept(o)
    /\ UNCHANGED <<args, calls, diarize_model, language, result, output,
                   stderr, exitCode>>

Simple_print ==
    /\ script = "simple" /\ pc = "print"
    /\ stdout' = Append(stdout, JsonLine(output, FALSE, TRUE))
    /\ success' = TRUE
    /\ pc' = "exit"
    /\ UNCHANGED <<args, calls, exception, diarize_model, language, result,
                   output, file, stderr, exitCode>>

Simple_exit ==
    /\ script = "simple" /\ pc = "exit"
    /\ exitCode' = IF success THEN 0 ELSE 1
    /\ pc' = "done"
    /\ UNCHANGED <<args, calls, exception, diarize_model, language, result,
                   output, file, stdout, stderr, success>>

(***************************************************************************)
(* whisperx_processor.py                                                   *)
(***************************************************************************)
\* transcribe_audio: "except Exception: logger.error(...); raise", then
\* main: "except Exception: logger.error(...); sys.exit(1)"
Processor_raise(e) ==
    /\ exception' = e
    /\ stderr' = stderr \o <<"Transcription failed", "Error">>
    /\ exitCode' = 1
    /\ pc' = "done"

Processor_load_model ==
    /\ script = "processor" /\ pc = "main"
    /\ Attempt("load_model")
    /\ \/ /\ pc' = "load_audio"
          /\ UNCHANGED <<exception, stderr, exitCode>>
       \/ Processor_raise("load_model")
    /\ UNCHANGED <<args, diarize_model, language, result, output, file,
                   stdout, success>>

Processor_load_audio ==
    /\ script = "processor" /\ pc = "load_audio"
    /\ Attempt("load_audio")
    /\ \/ /\ pc' = "transcribe"
          /\ UNCHANGED <<exception, stderr, exitCode>>
       \/ Processor_raise("load_audio")
    /\ UNCHANGED <<args, diarize_model, language, result, output, file,
                   stdout, success>>

Processor_transcribe ==
    /\ script = "processor" /\ pc = "transcribe"
    /\ Attempt("transcribe")
    /\ \/ /\ \E l \in Languages : language' = l
          /\ pc' = "load_align_model"
          /\ UNCHANGED <<exception, stderr, exitCode>>
       \/ /\ Processor_raise("transcribe")
          /\ UNCHANGED language
    /\ UNCHANGED <<args, diarize_model, result, output, file, stdout, success>>

\* result["language"] is evaluated before the call: a KeyError when missing
Processor_load_align_model ==
    /\ script = "processor" /\ pc = "load_align_model"
    /\ IF language = Missing
       THEN /\ Processor_raise("KeyError")
            /\ UNCHANGED calls
       ELSE /\ Attempt("load_align_model")
            /\ \/ /\ pc' = "align"
                  /\ UNCHANGED <<exception, stderr, exitCode>>
               \/ Processor_raise("load_align_model")
    /\ UNCHANGED <<args, diarize_model, language, result, output, file,
                   stdout, success>>

Processor_align ==
    /\ script = "processor" /\ pc = "align"
    /\ Attempt("align")
    /\ \/ /\ \E r \in RawResults : result' = r
          /\ pc' = "format"
          /\ UNCHANGED <<exception, stderr, exitCode>>
       \/ /\ Processor_raise("align")
          /\ UNCHANGED result
    /\ UNCHANGED <<args, diarize_model, language, output, file, stdout, success>>

\* "Format output" and "Calculate overall confidence"
Processor_format ==
    /\ script = "processor" /\ pc = "format"
    /\ output' = Processor_transcription(result)
    /\ pc' = "save"
    /\ UNCHANGED <<args, calls, exception, diarize_model, language, result, file,
                   stdout, stderr, success, exitCode>>

\* "if output_dir: ... json.dump(transcription, f, ...)"
Processor_save ==
    /\ script = "processor" /\ pc = "save"
    /\ IF output_dir
       THEN \E o \in SaveOutcomes :
               /\ file' = FileAfter(o, output)
               /\ IF o = "saved"
                  THEN /\ pc' = "report"
                       /\ UNCHANGED <<exception, stderr, exitCode>>
                  ELSE Processor_raise(o)
       ELSE /\ pc' = "report"
            /\ UNCHANGED <<file, exception, stderr, exitCode>>
    /\ UNCHANGED <<args, calls, diarize_model, language, result, output,
                   stdout, success>>

\* main: "if args.json: print(json.dumps(result, ...)) else: print(...) x4"
Processor_report ==
    /\ script = "processor" /\ pc = "report"
    /\ stdout' = IF json_flag
                 THEN Append(stdout, JsonLine(output, TRUE, FALSE))
                 ELSE stdout \o <<TextLine("Transcription complete!"),
                                  TextLine("Language"), TextLine("Segments"),
                                  TextLine("Confidence")>>
    /\ pc' = "exit"
    /\ UNCHANGED <<args, calls, exception, diarize_model, language, result,
                   output, file, stderr, success, exitCode>>

\* main returns: the interpreter exits with code 0
Processor_exit ==
    /\ script = "processor" /\ pc = "exit"
    /\ exitCode' = 0
    /\ pc' = "done"
    /\ UNCHANGED <<args, calls, exception, diarize_model, language, result,
                   output, file, stdout, stderr, success>>

Next ==
    \/ Service_init
    \/ Service_load_diarization_model
    \/ Service_load_audio
    \/ Service_transcribe
    \/ Service_load_align_model
    \/ Service_align
    \/ Service_diarize
    \/ Service_assign_word_speakers
    \/ Service_format
    \/ Service_save
    \/ Service_print
    \/ Service_exit
    \/ Simple_init
    \/ Simple_transcribe
    \/ Simple_format
    \/ Simple_save
    \/ Simple_print
    \/ Simple_exit
    \/ Processor_load_model
    \/ Processor_load_audio
    \/ Processor_transcribe
    \/ Processor_load_align_model
    \/ Processor_align
    \/ Processor_format
    \/ Processor_save
    \/ Processor_report
    \/ Processor_exit

Spec == Init /\ [][Next]_vars

TypeOK ==
    /\ script \in Scripts
    /\ pc \in {"main", "load_diarization", "load_audio", "transcribe",
               "load_align_model", "align", "diarize", "assign_word_speakers",
               "format", "save", "print", "report", "exit", "done"}
    /\ exitCode \in {-1, 0, 1}
    /\ \A c \in Calls : calls[c] \in Nat
    /\ Len(result) <= MaxSegs


(***************************************************************************)
(* Vocabulary of the properties                                            *)
(***************************************************************************)
Assembled == output # NoDoc

\* the confidences of the output segments, in order
OutConfidences == [i \in DOMAIN output.segments |-> output.segments[i].confidence]

\* m is the fixed-point mean of the sequence cs (exact up to one unit)
IsMean(m, cs) ==
    /\ m * Len(cs) <= Sum(cs)
    /\ Sum(cs) < m * Len(cs) + Len(cs)

\* positions of the input segments labelled with speaker id
Carrying(id) ==
    {i \in DOMAIN result : "speaker" \in DOMAIN result[i] /\ result[i].speaker = id}

InputSpeakers == {result[i].speaker : i \in {j \in DOMAIN result : "speaker" \in DOMAIN result[j]}}

DurationOf(id) ==
    Sum([i \in DOMAIN result |->
            IF i \in Carrying(id) THEN result[i].end - result[i].start ELSE 0])

FirstAppearance(id) == CHOOSE i \in Carrying(id) : \A j \in Carrying(id) : i <= j

\* t is s without the blanks at its two ends
IsTrimOf(t, s) ==
    /\ t # <<>> => Head(t) # " " /\ t[Len(t)] # " "
    /\ \E a \in 0..Len(s) : \E b \in a..Len(s) :
          /\ SubSeq(s, a + 1, b) = t
          /\ \A k \in (1..a) \cup ((b + 1)..Len(s)) : s[k] = " "

JsonObjects == SelectSeq(stdout, LAMBDA l : l.kind = "json")

\* what a reader of the JSON text gets back: escapes are read as the
\* characters they stand for, the layout is dropped
UnescapeChar(c) == IF c = "\\u00e9" THEN NonAscii ELSE c

DecodeDoc(value) ==
    IF "segments" \in DOMAIN value
    THEN [value EXCEPT !.segments =
            [i \in DOMAIN value.segments |->
                [value.segments[i] EXCEPT
                    !.text = [k \in DOMAIN value.segments[i].text |->
                                 UnescapeChar(value.segments[i].text[k])]]]]
    ELSE value

Loads(json) == DecodeDoc(json.value)

IsErrorDoc(d) == DOMAIN d = {"error", "success"} /\ d.success = FALSE

Printed(doc) ==
    \E i \in DOMAIN stdout : stdout[i].kind = "json" /\ Loads(stdout[i].json) = doc

(***************************************************************************)
(* C1: for every non-empty sequence of raw segments, the assembled         *)
(* document carries a document-level confidence field equal to the         *)
(* arithmetic mean of the confidences of its output segments.              *)
(* Stated for the two WhisperX scripts the claim is drawn from.             *)
(***************************************************************************)
C1_DocumentConfidenceIsMean ==
    (script \in {"service", "processor"} /\ Assembled /\ result # <<>>) =>
        /\ "confidence" \in DOMAIN output
        /\ IsMean(output.confidence, OutConfidences)

(***************************************************************************)
(* C2: when the external result has zero segments, the assembled document  *)
(* has confidence exactly 0.0, an empty segments list and an empty         *)
(* speakers list, and assembling raises nothing.                           *)
(***************************************************************************)
C2_EmptyResultDocument ==
    (script \in {"service", "processor"} /\ Assembled /\ result = <<>>) =>
        /\ "confidence" \in DOMAIN output
        /\ output.confidence = 0
        /\ output.segments = <<>>
        /\ "speakers" \in DOMAIN output
        /\ output.speakers = <<>>
        /\ pc = "save" => exception = NoException

C4_OrderPreserved ==
    Assembled =>
        /\ Len(output.segments) = Len(result)
        /\ \A i \in DOMAIN result :
             /\ output.segments[i].start = result[i].start
             /\ output.segments[i].end = result[i].end
             /\ IsTrimOf(output.segments[i].text, result[i].text)
        /\ "speakers" \in DOMAIN output =>
             \A a, b \in DOMAIN output.speakers :
                a < b => /\ Carrying(output.speakers[a].id) # {}
                         /\ Carrying(output.speakers[b].id) # {}
                         /\ FirstAppearance(output.speakers[a].id)
                              < FirstAppearance(output.speakers[b].id)

\* two speakers, listed against their alphabetical order, and a trimmed text
C4_Witness ==
    /\ script = "service" /\ Assembled
    /\ Len(output.speakers) = 2
    /\ output.speakers[1].id = "SPEAKER_01"
    /\ output.speakers[2].id = "SPEAKER_00"
    /\ \E i \in DOMAIN result : output.segments[i].text # result[i].text


(***************************************************************************)
(* Vocabulary of the run-level properties                                  *)
(***************************************************************************)
\* the seven external capability calls of a run
Capabilities == Calls \ {"DiarizationPipeline"}

Done == pc = "done"

ErrorDocPrinted == \E i \in DOMAIN JsonObjects : IsErrorDoc(Loads(JsonObjects[i].json))

SuccessDocPrinted == Assembled /\ Printed(output)

FileWritten == file.state = "written" /\ Loads(file.json) = output

\* diarization was asked for and load_diarization_model returned False
DiarizationSetupFailed ==
    /\ script = "service"
    /\ ~no_diarization
    /\ calls["load_model"] = 1 /\ exception # "load_model"
    /\ pc # "load_diarization"
    /\ ~diarize_model

Warned ==
    \E i \in DOMAIN stderr :
        stderr[i] \in {"Warning: No Hugging Face token provided",
                       "Failed to load diarization model"}

(***************************************************************************)
(* C5: whenever an external capability call fails during a run, the        *)
(* failure is caught at the top level, an error document {error, success:  *)
(* false} is printed on stdout, the process exits with a non-zero code     *)
(* and the output file is not left partially written.                      *)
(***************************************************************************)
C5_CapabilityFailureReported ==
    (Done /\ exception \in Capabilities) =>
        /\ ErrorDocPrinted
        /\ exitCode # 0
        /\ file.state # "partial"

(***************************************************************************)
(* C6: every invocation has printed exactly one JSON object on stdout when *)
(* it terminates: the success document or the error document, never none,  *)
(* never two.                                                              *)
(***************************************************************************)
C6_ExactlyOneJsonObject ==
    Done =>
        /\ Len(JsonObjects) = 1
        /\ ErrorDocPrinted \/ SuccessDocPrinted

C7_Delivered ==
    /\ Assembled
    /\ (script # "processor" \/ output_dir) => FileWritten
    /\ (script = "processor" /\ ~output_dir) => file = NoFile
    /\ (script # "processor" \/ json_flag) => SuccessDocPrinted /\ Len(stdout) = 1
    /\ (script = "processor" /\ ~json_flag) =>
          /\ Len(stdout) = 4
          /\ \A i \in DOMAIN stdout : stdout[i].kind = "text"

C8_DiarizationDegrades ==
    DiarizationSetupFailed =>
        /\ Warned
        /\ calls["diarize"] = 0
        /\ calls["assign_word_speakers"] = 0
        /\ exception # "DiarizationPipeline"
        /\ pc = "load_audio" => exitCode = -1 /\ stdout = <<>>
        /\ (Done /\ exception = NoException) =>
              /\ calls["transcribe"] = 1 /\ calls["align"] = 1
              /\ SuccessDocPrinted /\ Len(stdout) = 1
              /\ exitCode = 0

\* the pipeline was tried, raised, and the run still ended well
C8_Witness ==
    /\ DiarizationSetupFailed /\ Done /\ exitCode = 0
    /\ calls["DiarizationPipeline"] = 1
    /\ Len(result) > 0

(***************************************************************************)
(* C9: the output segment's confidence is 1.0 when the raw segment carries *)
(* no confidence value on the Whisper path (whisper_simple.py), and is the *)
(* raw segment's alignment score whenever it carries one on the WhisperX   *)
(* paths (whisperx_service.py, whisperx_processor.py).                     *)
(***************************************************************************)
C9_SegmentConfidence ==
    Assembled =>
        \A i \in DOMAIN result :
            /\ (script = "simple" /\ DOMAIN result[i] \cap {"score", "confidence"} = {})
                  => output.segments[i].confidence = One
            /\ (script # "simple" /\ "score" \in DOMAIN result[i])
                  => output.segments[i].confidence = result[i].score

(***************************************************************************)
(* C10: in a run each of the seven external calls is attempted at most     *)
(* once; once an exception has ended the work no external call is made     *)
(* and the run is only reporting the error and exiting.                    *)
(***************************************************************************)
C10_NoRetry ==
    [][/\ \A c \in Capabilities : calls'[c] <= 1
       /\ exception' # NoException => pc' \in {"exit", "done"}
       /\ exception # NoException => calls' = calls /\ exception' = exception]_vars

\* align was tried once, failed, and the run is over
C10_Witness ==
    /\ Done /\ exception = "align"
    /\ calls["align"] = 1 /\ calls["load_audio"] = 1


(***************************************************************************)
(* C11: for every raw segment that carries word-level data, the output     *)
(* segment holds one Word record {word, start, end, confidence} per raw    *)
(* word, in the same order; a word without a confidence value gets 1.0 on  *)
(* the Whisper path (whisper_simple.py) and the external per-word          *)
(* confidence (the alignment score) is passed through on the WhisperX      *)
(* paths; a segment without word-level data gets no words built for it.    *)
(***************************************************************************)
C11_WordRecords ==
    Assembled =>
        \A i \in DOMAIN result :
            LET raw == result[i]
                out == output.segments[i]
            IN /\ "words" \in DOMAIN raw =>
                    /\ "words" \in DOMAIN out
                    /\ Len(out.words) = Len(raw.words)
                    /\ \A k \in DOMAIN raw.words :
                         /\ DOMAIN out.words[k] = {"word", "start", "end", "confidence"}
                         /\ out.words[k].word = raw.words[k].word
                         /\ out.words[k].start = raw.words[k].start
                         /\ out.words[k].end = raw.words[k].end
                         /\ (script = "simple"
                               /\ DOMAIN raw.words[k]
                                    \cap {"score", "probability", "confidence"} = {})
                               => out.words[k].confidence = One
                         /\ (script # "simple" /\ "score" \in DOMAIN raw.words[k])
                               => out.words[k].confidence = raw.words[k].score
               /\ "words" \notin DOMAIN raw =>
                    \/ "words" \notin DOMAIN out
                    \/ out.words = <<>>


(***************************************************************************)
(* C12: in process_file (whisperx_service.py, whisper_simple.py) the       *)
(* success document is printed on stdout only after the output file has    *)
(* been completely written, and it is the document the file holds:         *)
(* whenever a success document is on stdout, the file is written and       *)
(* reading the file gives the document that reading the stdout line gives. *)
(***************************************************************************)
C12_PrintedAfterWritten ==
    script \in {"service", "simple"} =>
        \A i \in DOMAIN stdout :
            (stdout[i].kind = "json" /\ ~IsErrorDoc(Loads(stdout[i].json))) =>
                /\ file.state = "written"
                /\ Loads(file.json) = Loads(stdout[i].json)
                /\ Loads(file.json) = output

\* a success document with a non-ASCII text: the file and the stdout line
\* differ as texts and still hold the same document
C12_Witness ==
    /\ script = "service" /\ Len(stdout) = 1
    /\ stdout[1].kind = "json" /\ ~IsErrorDoc(Loads(stdout[1].json))
    /\ file.state = "written"
    /\ file.json.value # stdout[1].json.value
    /\ file.json.pretty /\ ~stdout[1].json.pretty

====
